---- MODULE Spec2Model ----
(***************************************************************************)
(* OpenClConfLoader.cpp: the conf loader that turns a key/value descriptor *)
(* into a block factory and its documentation in the plugin registry, and  *)
(* the factory closure that builds the OpenCL kernel block.                *)
(*                                                                         *)
(* A std::string is a sequence of one-character strings, so that the       *)
(* tokenizer, the integer parse, the path arithmetic and Poco::format are  *)
(* computed character by character as the code computes them.              *)
(***************************************************************************)
EXTENDS Integers, Sequences, FiniteSets, TLC

VARIABLES
    registry,          \* Pothos::PluginRegistry: plugin path -> payload
    op,                \* the operation that ran last: "init", "load", "invoke"
    config,            \* OpenClConfLoader: the config map of the last call
    ret,               \* OpenClConfLoader: how the last call ended
    blockDescription,  \* OpenClConfLoader: the local blockDescription
    loaded,            \* history: path -> FactoryArgs and config bound by addCall
    invoked,           \* the registered factory called last and its arguments
    trace              \* opaqueOpenClBlockFactory: its calls, in order

vars == <<registry, op, config, ret, blockDescription, loaded, invoked, trace>>

----------------------------------------------------------------------------
(* Bounds *)

\* factories one process registers through the loader
MaxLoads == 2
\* an uninitialized size_t is read as any value in 0..MaxUninit
MaxUninit == 1

----------------------------------------------------------------------------
(* String literals of the source *)

\* generateLocalSizeStrings
LocalSizeDESCRIPTION ==
    <<" ", "*", " ", "|", "p", "a", "r", "a", "m", " ", "l", "o", "c", "a",
      "l", "S", "i", "z", "e", "[", "L", "o", "c", "a", "l", " ", "S", "i",
      "z", "e", "]", " ", "T", "h", "e", " ", "n", "u", "m", "b", "e", "r",
      " ", "o", "f", " ", "w", "o", "r", "k", " ", "u", "n", "i", "t", "s",
      "/", "r", "e", "s", "o", "u", "r", "c", "e", "s", " ", "t", "o", " ",
      "a", "l", "l", "o", "c", "a", "t", "e", ".", " ", "\n", " ", "*", " ",
      "T", "h", "i", "s", " ", "c", "o", "n", "t", "r", "o", "l", "s", " ",
      "t", "h", "e", " ", "p", "a", "r", "a", "l", "l", "e", "l", "i", "s",
      "m", " ", "o", "f", " ", "t", "h", "e", " ", "k", "e", "r", "n", "e",
      "l", " ", "e", "x", "e", "c", "u", "t", "i", "o", "n", ".", " ", "\n",
      " ", "*", " ", "|", "d", "e", "f", "a", "u", "l", "t", " ", "2", " ",
      "\n">>
LocalSizeSETTER ==
    <<" ", "*", " ", "|", "s", "e", "t", "t", "e", "r", " ", "s", "e", "t",
      "L", "o", "c", "a", "l", "S", "i", "z", "e", "(", "l", "o", "c", "a",
      "l", "S", "i", "z", "e", ")", " ", "\n">>

\* generateGlobalFactorStrings
GlobalFactorDESCRIPTION ==
    <<" ", "*", " ", "|", "p", "a", "r", "a", "m", " ", "g", "l", "o", "b",
      "a", "l", "F", "a", "c", "t", "o", "r", "[", "G", "l", "o", "b", "a",
      "l", " ", "F", "a", "c", "t", "o", "r", "]", " ", "T", "h", "i", "s",
      " ", "f", "a", "c", "t", "o", "r", " ", "c", "o", "n", "t", "r", "o",
      "l", "s", " ", "t", "h", "e", " ", "g", "l", "o", "b", "a", "l", " ",
      "s", "i", "z", "e", ".", " ", "\n", " ", "*", " ", "T", "h", "e", " ",
      "g", "l", "o", "b", "a", "l", " ", "s", "i", "z", "e", " ", "i", "s",
      " ", "t", "h", "e", " ", "n", "u", "m", "b", "e", "r", " ", "o", "f",
      " ", "k", "e", "r", "n", "e", "l", " ", "i", "t", "e", "r", "a", "r",
      "i", "o", "n", "s", " ", "p", "e", "r", " ", "c", "a", "l", "l", ".",
      " ", "\n", " ", "*", " ", "G", "l", "o", "b", "a", "l", " ", "s", "i",
      "z", "e", " ", "=", " ", "n", "u", "m", "b", "e", "r", " ", "o", "f",
      " ", "i", "n", "p", "u", "t", " ", "e", "l", "e", "m", "e", "n", "t",
      "s", " ", "*", " ", "g", "l", "o", "b", "a", "l", " ", "f", "a", "c",
      "t", "o", "r", ".", " ", "\n", " ", "*", " ", "|", "d", "e", "f", "a",
      "u", "l", "t", " ", "1", ".", "0", " ", "\n">>
GlobalFactorSETTER ==
    <<" ", "*", " ", "|", "s", "e", "t", "t", "e", "r", " ", "s", "e", "t",
      "G", "l", "o", "b", "a", "l", "F", "a", "c", "t", "o", "r", "(", "g",
      "l", "o", "b", "a", "l", "F", "a", "c", "t", "o", "r", ")", " ", "\n">>

\* generateProductionFactorStrings
ProductionFactorDESCRIPTION ==
    <<" ", "*", " ", "|", "p", "a", "r", "a", "m", " ", "p", "r", "o", "d",
      "u", "c", "t", "i", "o", "n", "F", "a", "c", "t", "o", "r", "[", "P",
      "r", "o", "d", "u", "c", "t", "i", "o", "n", " ", "F", "a", "c", "t",
      "o", "r", "]", " ", "T", "h", "i", "s", " ", "f", "a", "c", "t", "o",
      "r", " ", "c", "o", "n", "t", "r", "o", "l", "s", " ", "t", "h", "e",
      " ", "e", "l", "e", "m", "e", "n", "t", "s", " ", "p", "r", "o", "d",
      "u", "c", "e", "d", ".", " ", "\n", " ", "*", " ", "F", "o", "r", " ",
      "e", "a", "c", "h", " ", "c", "a", "l", "l", " ", "t", "o", " ", "w",
      "o", "r", "k", ",", " ", "e", "l", "e", "m", "e", "n", "t", "s", " ",
      "p", "r", "o", "d", "u", "c", "e", "d", " ", "=", " ", "n", "u", "m",
      "b", "e", "r", " ", "o", "f", " ", "i", "n", "p", "u", "t", " ", "e",
      "l", "e", "m", "e", "n", "t", "s", " ", "*", " ", "p", "r", "o", "d",
      "u", "c", "t", "i", "o", "n", " ", "f", "a", "c", "t", "o", "r", ".",
      " ", "\n", " ", "*", " ", "|", "d", "e", "f", "a", "u", "l", "t", " ",
      "1", ".", "0", " ", "\n">>
ProductionFactorSETTER ==
    <<" ", "*", " ", "|", "s", "e", "t", "t", "e", "r", " ", "s", "e", "t",
      "P", "r", "o", "d", "u", "c", "t", "i", "o", "n", "F", "a", "c", "t",
      "o", "r", "(", "p", "r", "o", "d", "u", "c", "t", "i", "o", "n", "F",
      "a", "c", "t", "o", "r", ")", "\n">>

\* generateParamsAndSetters: "%s%s%s"
ParamsFORMAT ==
    <<"%", "s", "%", "s", "%", "s">>

\* generateBlockDescription
FORMAT ==
    <<"/", "*", "*", "*", "*", "*", "*", "*", "*", "*", "*", "*", "*", "*",
      "*", "*", "*", "*", "*", "*", "*", "*", "*", "*", "*", "*", "*", "*",
      "*", "*", "*", "*", "*", "*", "*", "*", "*", "*", "*", "*", "*", "*",
      "*", "*", "*", "*", "*", "*", "*", "*", "*", "*", "*", "*", "*", "*",
      "*", "*", "*", "*", "*", "*", "*", "*", "*", "*", "*", "*", "*", "*",
      "*", "*", "\n", " ", "*", " ", "|", "P", "o", "t", "h", "o", "s", "D",
      "o", "c", " ", "%", "s", " ", "\n", " ", "*", " ", "%", "s", "\n", "%",
      "s", "\n", "%", "s", "\n", " ", "*", "\n", " ", "*", " ", "|", "p", "a",
      "r", "a", "m", " ", "d", "e", "v", "i", "c", "e", "I", "d", "[", "D",
      "e", "v", "i", "c", "e", " ", "I", "D", "]", " ", "A", " ", "m", "a",
      "r", "k", "u", "p", " ", "t", "o", " ", "s", "p", "e", "c", "i", "f",
      "y", " ", "O", "p", "e", "n", "C", "L", " ", "p", "l", "a", "t", "f",
      "o", "r", "m", " ", "a", "n", "d", " ", "d", "e", "v", "i", "c", "e",
      ".", " ", "\n", " ", "*", " ", "T", "h", "e", " ", "m", "a", "r", "k",
      "u", "p", " ", "t", "a", "k", "e", "s", " ", "t", "h", "e", " ", "f",
      "o", "r", "m", "a", "t", " ", "[", "p", "l", "a", "t", "f", "o", "r",
      "m", " ", "i", "n", "d", "e", "x", "]", ":", "[", "d", "e", "v", "i",
      "c", "e", " ", "i", "n", "d", "e", "x", "]", " ", "\n", " ", "*", " ",
      "T", "h", "e", " ", "p", "l", "a", "t", "f", "o", "r", "m", " ", "i",
      "n", "d", "e", "x", " ", "r", "e", "p", "r", "e", "s", "e", "n", "t",
      "s", " ", "a", " ", "p", "l", "a", "t", "f", "o", "r", "m", " ", "I",
      "D", " ", "f", "o", "u", "n", "d", " ", "i", "n", " ", "c", "l", "G",
      "e", "t", "P", "l", "a", "t", "f", "o", "r", "m", "I", "D", "s", "(",
      ")", ".", " ", "\n", " ", "*", " ", "T", "h", "e", " ", "d", "e", "v",
      "i", "c", "e", " ", "i", "n", "d", "e", "x", " ", "r", "e", "p", "r",
      "e", "s", "e", "n", "t", "s", " ", "a", " ", "d", "e", "v", "i", "c",
      "e", " ", "I", "D", " ", "f", "o", "u", "n", "d", " ", "i", "n", " ",
      "c", "l", "G", "e", "t", "D", "e", "v", "i", "c", "e", "I", "D", "s",
      "(", ")", ".", " ", "\n", " ", "*", " ", "|", "d", "e", "f", "a", "u",
      "l", "t", " ", "\"", "0", ":", "0", "\"", " ", "\n", " ", "*", "\n",
      "%", "s", "\n", " ", "*", " ", "|", "f", "a", "c", "t", "o", "r", "y",
      " ", "%", "s", "(", "d", "e", "v", "i", "c", "e", "I", "d", ")", " ",
      "\n", "%", "s", "\n", " ", "*", "*", "*", "*", "*", "*", "*", "*", "*",
      "*", "*", "*", "*", "*", "*", "*", "*", "*", "*", "*", "*", "*", "*",
      "*", "*", "*", "*", "*", "*", "*", "*", "*", "*", "*", "*", "*", "*",
      "*", "*", "*", "*", "*", "*", "*", "*", "*", "*", "*", "*", "*", "*",
      "*", "*", "*", "*", "*", "*", "*", "*", "*", "*", "*", "*", "*", "*",
      "*", "*", "*", "*", "*", "/">>
CategoryFORMAT ==
    <<" ", "*", " ", "|", "c", "a", "t", "e", "g", "o", "r", "y", " ", "%",
      "s", "\n">>
KeywordFORMAT ==
    <<" ", "*", " ", "|", "k", "e", "y", "w", "o", "r", "d", " ", "%", "s",
      "\n">>

\* OpenClConfLoader
tokSep ==
    <<" ", "\t">>
NoConfFilepath ==
    <<"N", "o", " ", "c", "o", "n", "f", " ", "f", "i", "l", "e", "p", "a",
      "t", "h">>
NoSource ==
    <<"N", "o", " ", "s", "o", "u", "r", "c", "e">>
NoKernelName ==
    <<"N", "o", " ", "k", "e", "r", "n", "e", "l", " ", "n", "a", "m", "e">>
NoInputTypes ==
    <<"N", "o", " ", "i", "n", "p", "u", "t", " ", "t", "y", "p", "e", "s">>
NoOutputTypes ==
    <<"N", "o", " ", "o", "u", "t", "p", "u", "t", " ", "t", "y", "p", "e",
      "s">>
NoFactory ==
    <<"N", "o", " ", "f", "a", "c", "t", "o", "r", "y">>
BlocksPath ==
    <<"/", "b", "l", "o", "c", "k", "s">>
BlocksDocsPath ==
    <<"/", "b", "l", "o", "c", "k", "s", "/", "d", "o", "c", "s">>
OpenClKernelPath ==
    <<"/", "b", "l", "o", "c", "k", "s", "/", "b", "l", "o", "c", "k", "s",
      "/", "o", "p", "e", "n", "c", "l", "_", "k", "e", "r", "n", "e", "l">>
ConfLoaderPath ==
    <<"/", "f", "r", "a", "m", "e", "w", "o", "r", "k", "/", "c", "o", "n",
      "f", "_", "l", "o", "a", "d", "e", "r", "/", "o", "p", "e", "n", "c",
      "l">>

----------------------------------------------------------------------------
(* Library calls the loader makes, modelled by what they compute *)

Min(S) == CHOOSE x \in S : \A y \in S : x <= y
Max(S) == CHOOSE x \in S : \A y \in S : x >= y

\* std::isspace in the "C" locale
Whitespace == {" ", "\t", "\n", "\r", "\f"}

Digits == <<"0", "1", "2", "3", "4", "5", "6", "7", "8", "9">>
IsDigit(c) == \E d \in 1..10 : Digits[d] = c
DigitValue(c) == (CHOOSE d \in 1..10 : Digits[d] = c) - 1

\* std::string operator+
Concat(a, b) == a \o b

\* Poco::trim: drops leading and trailing whitespace
Trim(str) ==
    LET keep == {i \in 1..Len(str) : str[i] \notin Whitespace}
    IN  IF keep = {} THEN << >> ELSE SubSeq(str, Min(keep), Max(keep))

\* Poco::StringTokenizer with TOK_IGNORE_EMPTY | TOK_TRIM: scans the string,
\* ends the current token at every separator character, trims it and keeps
\* it unless it is empty.
RECURSIVE TokenizeFrom(_, _, _, _, _)
TokenizeFrom(str, separators, i, token, tokens) ==
    LET trimmed == Trim(token)
        emitted == IF trimmed = << >> THEN tokens ELSE Append(tokens, trimmed)
    IN  IF i > Len(str) THEN emitted
        ELSE IF \E s \in 1..Len(separators) : separators[s] = str[i]
             THEN TokenizeFrom(str, separators, i + 1, << >>, emitted)
             ELSE TokenizeFrom(str, separators, i + 1, Append(token, str[i]), tokens)

StringTokenizer(str, separators) == TokenizeFrom(str, separators, 1, << >>, << >>)

\* copies the tokens, first to last, into a std::vector
stringTokenizerToVector(tokenizer) == [i \in 1..Len(tokenizer) |-> tokenizer[i]]

\* Poco::format with %s arguments: the n-th "%s" is replaced by the n-th
\* argument, which is copied as it is.
RECURSIVE PocoFormat(_, _)
PocoFormat(fmt, args) ==
    LET hits == {i \in 1..(Len(fmt) - 1) : fmt[i] = "%" /\ fmt[i + 1] = "s"}
    IN  IF hits = {} \/ args = << >> THEN fmt
        ELSE LET i == Min(hits)
             IN  SubSeq(fmt, 1, i - 1) \o Head(args)
                   \o PocoFormat(SubSeq(fmt, i + 2, Len(fmt)), Tail(args))

\* Poco::Optional<T>
Unspecified == [isSpecified |-> FALSE, value |-> 0]
UnspecifiedString == [isSpecified |-> FALSE, value |-> << >>]
Specified(v) == [isSpecified |-> TRUE, value |-> v]

\* the value an uninitialized size_t is read as
UninitializedSizeT == 0..MaxUninit

\* std::num_get for an unsigned decimal: the digits from position i on,
\* accumulated left to right; 0 when there is no digit (failbit is set and
\* nobody looks at it).
RECURSIVE ParseDigits(_, _, _)
ParseDigits(str, i, acc) ==
    IF i <= Len(str) /\ IsDigit(str[i])
    THEN ParseDigits(str, i + 1, acc * 10 + DigitValue(str[i]))
    ELSE acc

\* convertString<size_t>: std::stringstream(str) >> ret, the stream state is
\* never tested.  The sentry skips leading whitespace; when that reaches the
\* end of the string the extraction does not run and ret, which has no
\* initializer, is returned as it is.  The result is the set of values the
\* call can return.  (The config values of the model carry no sign and stay
\* far below the width of size_t.)
convertString(str) ==
    LET rest == {i \in 1..Len(str) : str[i] \notin Whitespace}
    IN  IF rest = {} THEN UninitializedSizeT
        ELSE {ParseDigits(str, Min(rest), 0)}

LastIndexOf(str, c) ==
    LET at == {i \in 1..Len(str) : str[i] = c}
    IN  IF at = {} THEN 0 ELSE Max(at)

\* Poco::Path(confFilePath).makeParent(), for a path that names a file: the
\* file name is cleared and the directory part, with its trailing separator,
\* is left.
makeParent(path) == SubSeq(path, 1, LastIndexOf(path, "/"))

\* Poco::Path(rootDir, fileName).toString(): rootDir taken as a directory
\* and fileName as its file name, verbatim.
PathToString(rootDir, fileName) == Concat(rootDir, fileName)

\* (the existence of the source never looked at)
FileExists_Unchecked(files, path) == TRUE

\* Poco::File(path).exists() against the files that exist
FileExists(files, path) == path \in files

\* Poco::Path(path).getBaseName(): the file name without its extension
getBaseName(path) ==
    LET name == SubSeq(path, LastIndexOf(path, "/") + 1, Len(path))
        dot == LastIndexOf(name, ".")
    IN  IF dot = 0 THEN name ELSE SubSeq(name, 1, dot - 1)

----------------------------------------------------------------------------
(* Documentation synthesis *)

\* (the setter line emitted whether or not the value is specified)
generateLocalSizeStrings_SetterAlways(optLocalSize) ==
    [description |-> IF optLocalSize.isSpecified THEN << >> ELSE LocalSizeDESCRIPTION,
     setter      |-> LocalSizeSETTER]

generateLocalSizeStrings(optLocalSize) ==
    [description |-> IF optLocalSize.isSpecified THEN << >> ELSE LocalSizeDESCRIPTION,
     setter      |-> IF optLocalSize.isSpecified THEN << >> ELSE LocalSizeSETTER]

generateGlobalFactorStrings(optGlobalFactor) ==
    [description |-> IF optGlobalFactor.isSpecified THEN << >> ELSE GlobalFactorDESCRIPTION,
     setter      |-> IF optGlobalFactor.isSpecified THEN << >> ELSE GlobalFactorSETTER]

generateProductionFactorStrings(optProductionFactor) ==
    [description |-> IF optProductionFactor.isSpecified THEN << >>
                     ELSE ProductionFactorDESCRIPTION,
     setter      |-> IF optProductionFactor.isSpecified THEN << >>
                     ELSE ProductionFactorSETTER]

generateParamsAndSetters(factoryArgs) ==
    LET localSize == generateLocalSizeStrings(factoryArgs.optLocalSize)
        globalFactor == generateGlobalFactorStrings(factoryArgs.optGlobalFactor)
        productionFactor ==
            generateProductionFactorStrings(factoryArgs.optProductionFactor)
    IN  [params  |-> PocoFormat(ParamsFORMAT,
                        <<localSize.description,
                          globalFactor.description,
                          productionFactor.description>>),
         setters |-> PocoFormat(ParamsFORMAT,
                        <<localSize.setter,
                          globalFactor.setter,
                          productionFactor.setter>>)]

\* categoryString and keywordString: one formatted line per entry, in order
RECURSIVE FormatEach(_, _)
FormatEach(fmt, entries) ==
    IF entries = << >> THEN << >>
    ELSE PocoFormat(fmt, <<Head(entries)>>) \o FormatEach(fmt, Tail(entries))

generateBlockDescription(factoryArgs, blockDescriptionArgs, factory) ==
    LET categoryString == FormatEach(CategoryFORMAT, blockDescriptionArgs.categories)
        keywordString ==
            IF blockDescriptionArgs.optKeywords.isSpecified
            THEN FormatEach(KeywordFORMAT, blockDescriptionArgs.optKeywords.value)
            ELSE << >>
        paramsAndSetters == generateParamsAndSetters(factoryArgs)
    IN  PocoFormat(FORMAT,
            <<blockDescriptionArgs.blockName,
              IF blockDescriptionArgs.optDescription.isSpecified
              THEN blockDescriptionArgs.optDescription.value ELSE << >>,
              categoryString,
              keywordString,
              paramsAndSetters.params,
              factory,
              paramsAndSetters.setters>>)

----------------------------------------------------------------------------
(* The conf loader *)

\* a default-constructed FactoryArgs
EmptyFactoryArgs ==
    [source |-> << >>, kernelName |-> << >>,
     inputTypes |-> << >>, outputTypes |-> << >>,
     optLocalSize |-> Unspecified,
     optGlobalFactor |-> Unspecified,
     optProductionFactor |-> Unspecified]

\* Registry payloads.  A Pothos::Callable names its target and carries what
\* was bound to it; the JSON object is the parser's descriptor of one factory
\* of the text it was fed.
\* (a default-constructed FactoryArgs bound instead of the one filled in)
BlockFactoryCallable_DefaultArgs(factory, factoryArgs) ==
    [type |-> "Callable", target |-> "opaqueOpenClBlockFactory",
     factory |-> factory, factoryArgs |-> EmptyFactoryArgs, doc |-> << >>]

BlockFactoryCallable(factory, factoryArgs) ==
    [type |-> "Callable", target |-> "opaqueOpenClBlockFactory",
     factory |-> factory, factoryArgs |-> factoryArgs, doc |-> << >>]
HostCallable(target) ==
    [type |-> "Callable", target |-> target,
     factory |-> << >>, factoryArgs |-> EmptyFactoryArgs, doc |-> << >>]
JSONObject(factory, text) ==
    [type |-> "JSONObject", target |-> "",
     factory |-> factory, factoryArgs |-> EmptyFactoryArgs, doc |-> text]

\* how a call of the loader ends
Throw(type, what) ==
    [status |-> "throw", type |-> type, what |-> what, paths |-> << >>]
Return(paths) ==
    [status |-> "return", type |-> "", what |-> << >>, paths |-> paths]
NotCalled ==
    [status |-> "none", type |-> "", what |-> << >>, paths |-> << >>]

\* The plugin registry and the documentation parser belong to the host.
\* Their exceptions pass through the loader, which catches nothing, so each
\* call into the host is one that may throw: feedStream, addCall,
\* getJSONObject, add, in the order the loader makes them.  "none" is the
\* call of the loader in which the host throws nothing of its own accord.
HostCalls == {"none", "feedStream", "addCall", "getJSONObject", "add"}

\* Pothos::PluginRegistry::add refuses a path that already holds a plugin
AlreadyRegistered(reg, path) == path \in DOMAIN reg

\* blockDescriptionArgs.categories, from the config and the resolved source
readCategories(cfg, source) ==
    IF "categories" \in DOMAIN cfg
    THEN stringTokenizerToVector(StringTokenizer(cfg["output_types"], tokSep))
    ELSE <<getBaseName(source)>>

\* blockDescriptionArgs.optKeywords, from the config
readKeywords(cfg) ==
    IF "keywords" \in DOMAIN cfg
    THEN Specified(stringTokenizerToVector(StringTokenizer(cfg["output_types"], tokSep)))
    ELSE UnspecifiedString

\* (the factory taken out again when the documentation cannot be installed)
Install_WithCleanup(reg, factory, blockFactory, text, hostThrows) ==
    LET factoryPath == Concat(BlocksPath, factory)
        docsPath == Concat(BlocksDocsPath, factory)
        withFactory == reg @@ (factoryPath :> blockFactory)
    IN  IF hostThrows = "addCall"
        THEN [registry |-> reg, bound |-> FALSE,
              thrown |-> "HostException", what |-> << >>]
        ELSE IF AlreadyRegistered(reg, factoryPath)
        THEN [registry |-> reg, bound |-> FALSE,
              thrown |-> "PluginRegistryError", what |-> factoryPath]
        ELSE IF hostThrows \in {"getJSONObject", "add"}
        THEN [registry |-> reg, bound |-> TRUE,
              thrown |-> "HostException", what |-> << >>]
        ELSE IF AlreadyRegistered(withFactory, docsPath)
        THEN [registry |-> reg, bound |-> TRUE,
              thrown |-> "PluginRegistryError", what |-> docsPath]
        ELSE [registry |-> withFactory @@ (docsPath :> JSONObject(factory, text)),
              bound |-> TRUE, thrown |-> "", what |-> << >>]

\* The two registry writes that end the loader: addCall of the bound factory
\* under "/blocks"+factory, then add of parser.getJSONObject(factory) under
\* "/blocks/docs"+factory.  A throw leaves what was written before it.
\* thrown is "" when both writes went through.
Install(reg, factory, blockFactory, text, hostThrows) ==
    LET factoryPath == Concat(BlocksPath, factory)
        docsPath == Concat(BlocksDocsPath, factory)
        withFactory == reg @@ (factoryPath :> blockFactory)
    IN  IF hostThrows = "addCall"
        THEN [registry |-> reg, bound |-> FALSE,
              thrown |-> "HostException", what |-> << >>]
        ELSE IF AlreadyRegistered(reg, factoryPath)
        THEN [registry |-> reg, bound |-> FALSE,
              thrown |-> "PluginRegistryError", what |-> factoryPath]
        ELSE IF hostThrows \in {"getJSONObject", "add"}
        THEN [registry |-> withFactory, bound |-> TRUE,
              thrown |-> "HostException", what |-> << >>]
        ELSE IF AlreadyRegistered(withFactory, docsPath)
        THEN [registry |-> withFactory, bound |-> TRUE,
              thrown |-> "PluginRegistryError", what |-> docsPath]
        ELSE [registry |-> withFactory @@ (docsPath :> JSONObject(factory, text)),
              bound |-> TRUE, thrown |-> "", what |-> << >>]

\* (the paths collected but an empty list returned)
ReturnedPaths_Empty(factory) == << >>

\* the list the loader returns
ReturnedPaths(factory) ==
    <<Concat(BlocksPath, factory), Concat(BlocksDocsPath, factory)>>

\* OpenClConfLoader(config) run against the registry reg and the files that
\* exist.  hostThrows names the host call that throws, if any; localSize,
\* globalFactor and productionFactor are what convertString returned for the
\* keys that are present.  The result is the way the call ends, the registry
\* it leaves, the documentation text it built (empty when it did not get
\* there), and whether addCall went through, with the FactoryArgs it bound.
OpenClConfLoader(cfg, reg, files, hostThrows, localSize, globalFactor, productionFactor) ==
    LET Has(key) == key \in DOMAIN cfg
        Early(type, what) ==
            [ret |-> Throw(type, what), registry |-> reg, blockDescription |-> << >>,
             bound |-> FALSE, factoryArgs |-> EmptyFactoryArgs]
    IN
    IF ~Has("confFilePath") THEN Early("Exception", NoConfFilepath)
    ELSE IF ~Has("source") THEN Early("Exception", NoSource)
    ELSE
    LET rootDir == makeParent(cfg["confFilePath"])
        source == PathToString(rootDir, cfg["source"])
    IN
    IF ~FileExists(files, source) THEN Early("FileNotFoundException", source)
    ELSE IF ~Has("kernel_name") THEN Early("Exception", NoKernelName)
    ELSE IF ~Has("input_types") THEN Early("Exception", NoInputTypes)
    ELSE IF ~Has("output_types") THEN Early("Exception", NoOutputTypes)
    ELSE
    LET factoryArgs ==
            [source |-> source,
             kernelName |-> cfg["kernel_name"],
             inputTypes |->
                 stringTokenizerToVector(StringTokenizer(cfg["input_types"], tokSep)),
             outputTypes |->
                 stringTokenizerToVector(StringTokenizer(cfg["output_types"], tokSep)),
             optLocalSize |->
                 IF Has("local_size") THEN Specified(localSize) ELSE Unspecified,
             optGlobalFactor |->
                 IF Has("global_factor") THEN Specified(globalFactor) ELSE Unspecified,
             optProductionFactor |->
                 IF Has("production_factor") THEN Specified(productionFactor)
                 ELSE Unspecified]
        blockDescriptionArgs ==
            [blockName |->
                 IF Has("block_name") THEN cfg["block_name"] ELSE factoryArgs.kernelName,
             categories |-> readCategories(cfg, factoryArgs.source),
             optKeywords |-> readKeywords(cfg),
             optDescription |->
                 IF Has("description") THEN Specified(cfg["description"])
                 ELSE UnspecifiedString]
    IN
    IF ~Has("factory") THEN Early("Exception", NoFactory)
    ELSE
    LET factory == cfg["factory"]
        text == generateBlockDescription(factoryArgs, blockDescriptionArgs, factory)
    IN
    IF hostThrows = "feedStream"
    THEN [ret |-> Throw("HostException", << >>), registry |-> reg,
          blockDescription |-> text, bound |-> FALSE,
          factoryArgs |-> EmptyFactoryArgs]
    ELSE
    LET installed == Install(reg, factory, BlockFactoryCallable(factory, factoryArgs),
                             text, hostThrows)
    IN  [ret |-> IF installed.thrown = "" THEN Return(ReturnedPaths(factory))
                 ELSE Throw(installed.thrown, installed.what),
         registry |-> installed.registry,
         blockDescription |-> text,
         bound |-> installed.bound,
         factoryArgs |-> IF installed.bound THEN factoryArgs ELSE EmptyFactoryArgs]

----------------------------------------------------------------------------
(* The registered factory *)

\* Pothos::Object arguments: a string, a vector of strings, or a size_t
StringObject(str) == [type |-> "string", strs |-> <<str>>, num |-> 0]
VectorObject(vec) == [type |-> "vector", strs |-> vec, num |-> 0]
SizeTObject(n) == [type |-> "size_t", strs |-> << >>, num |-> n]

Call(name, args) == [call |-> name, args |-> args]

\* (the two type vectors put before the caller's arguments)
argsVector_TypesFirst(args, factoryArgs) ==
    <<VectorObject(factoryArgs.inputTypes), VectorObject(factoryArgs.outputTypes)>>
      \o args

\* argsVector: the caller's arguments, then inputTypes, then outputTypes
argsVector(args, factoryArgs) ==
    Append(Append(args, VectorObject(factoryArgs.inputTypes)),
           VectorObject(factoryArgs.outputTypes))

\* (the global factor set before the local size)
TunableCalls_GlobalFactorFirst(factoryArgs) ==
    (IF factoryArgs.optGlobalFactor.isSpecified
     THEN <<Call("setGlobalFactor",
                 <<SizeTObject(factoryArgs.optGlobalFactor.value)>>)>>
     ELSE << >>)
    \o (IF factoryArgs.optLocalSize.isSpecified
        THEN <<Call("setLocalSize", <<SizeTObject(factoryArgs.optLocalSize.value)>>)>>
        ELSE << >>)
    \o (IF factoryArgs.optProductionFactor.isSpecified
        THEN <<Call("setProductionFactor",
                    <<SizeTObject(factoryArgs.optProductionFactor.value)>>)>>
        ELSE << >>)

\* the setter calls for the tunables that are specified
TunableCalls(factoryArgs) ==
    (IF factoryArgs.optLocalSize.isSpecified
     THEN <<Call("setLocalSize", <<SizeTObject(factoryArgs.optLocalSize.value)>>)>>
     ELSE << >>)
    \o (IF factoryArgs.optGlobalFactor.isSpecified
        THEN <<Call("setGlobalFactor",
                    <<SizeTObject(factoryArgs.optGlobalFactor.value)>>)>>
        ELSE << >>)
    \o (IF factoryArgs.optProductionFactor.isSpecified
        THEN <<Call("setProductionFactor",
                    <<SizeTObject(factoryArgs.optProductionFactor.value)>>)>>
        ELSE << >>)

\* opaqueOpenClBlockFactory(factory, factoryArgs, args, numArgs): the calls
\* it makes, first to last, closed by the return of the block.  The generic
\* factory and the methods of the block are taken to return.
opaqueOpenClBlockFactory(factory, factoryArgs, args) ==
    <<Call("opaqueCall", argsVector(args, factoryArgs)),
      Call("setName", <<StringObject(factory)>>),
      Call("setSource", <<StringObject(factoryArgs.kernelName),
                          StringObject(factoryArgs.source)>>)>>
    \o TunableCalls(factoryArgs)
    \o <<Call("return", << >>)>>

----------------------------------------------------------------------------
(* Inputs *)

ConfFilePath ==
    <<"/", "p", "/", "x", ".", "c", "o", "n", "f">>
SourceKCl ==
    <<"k", ".", "c", "l">>
SourceNope ==
    <<"n", "o", "p", "e", ".", "c", "l">>
ResolvedKCl ==
    <<"/", "p", "/", "k", ".", "c", "l">>
KernelRun ==
    <<"r", "u", "n">>
KernelGo ==
    <<"g", "o">>
TypesF32 ==
    <<"f", "3", "2">>
TypesI8 ==
    <<"i", "8">>
TypesSpaced ==
    <<" ", "f", "3", "2", "\t", "i", "8", " ">>
TypesBlank ==
    <<" ", " ">>
TypesF32I8 ==
    <<"f", "3", "2", " ", "i", "8">>
FactoryK ==
    <<"/", "k">>
FactoryDocsK ==
    <<"/", "d", "o", "c", "s", "/", "k">>
FactoryNoSlash ==
    <<"k">>
FactoryEmpty == << >>
Size4 ==
    <<"4">>
Size2 ==
    <<"2">>
Size1 ==
    <<"1">>
Size3 ==
    <<"3">>
SizeAbc ==
    <<"a", "b", "c">>
SizeBlank == << >>
Size7x ==
    <<" ", "7", "x">>
NameMyK ==
    <<"M", "y", " ", "K">>
CategoriesAB ==
    <<"A", " ", "B">>
CategoriesNone == << >>
KeywordsXYZ ==
    <<"x", " ", "y", " ", "z">>
DescriptionD ==
    <<"D", ".">>
DeviceId ==
    <<"0", ":", "0">>

\* the files that exist: the kernel source next to the descriptor
ExistingFiles == {ResolvedKCl}

\* Scenario A: the required keys only
ScenarioA ==
    ("confFilePath" :> ConfFilePath) @@ ("source" :> SourceKCl)
      @@ ("kernel_name" :> KernelRun) @@ ("input_types" :> TypesF32)
      @@ ("output_types" :> TypesI8) @@ ("factory" :> FactoryK)

\* Scenario B: all three tunables given
ScenarioB ==
    ScenarioA @@ ("local_size" :> Size4) @@ ("global_factor" :> Size2)
      @@ ("production_factor" :> Size1)

\* Scenario E: all the documentation keys given
ScenarioE ==
    ScenarioA @@ ("block_name" :> NameMyK) @@ ("categories" :> CategoriesAB)
      @@ ("keywords" :> KeywordsXYZ) @@ ("description" :> DescriptionD)

\* other values a key can have
Alternatives ==
    {<<"source", SourceNope>>, <<"kernel_name", KernelGo>>,
     <<"input_types", TypesSpaced>>, <<"input_types", TypesBlank>>,
     <<"output_types", TypesF32I8>>,
     <<"factory", FactoryDocsK>>, <<"factory", FactoryNoSlash>>,
     <<"factory", FactoryEmpty>>,
     <<"local_size", Size3>>, <<"local_size", SizeAbc>>,
     <<"local_size", SizeBlank>>, <<"local_size", Size7x>>,
     <<"global_factor", SizeAbc>>, <<"production_factor", SizeBlank>>,
     <<"categories", CategoriesNone>>, <<"keywords", KeywordsXYZ>>}

Override(cfg, key, value) ==
    [k \in DOMAIN cfg \cup {key} |-> IF k = key THEN value ELSE cfg[k]]
Without(cfg, key) == [k \in DOMAIN cfg \ {key} |-> cfg[k]]

\* a scenario, the scenario with one key changed, and with one key removed
Variants(cfg) ==
    {cfg} \cup {Override(cfg, a[1], a[2]) : a \in Alternatives}
          \cup {Without(cfg, key) : key \in DOMAIN cfg}

Configs == Variants(ScenarioA) \cup Variants(ScenarioB) \cup Variants(ScenarioE)

\* the descriptors one process loads one after the other: two scenarios
\* under two factory paths, and the ones that fail validation
Descriptors ==
    {ScenarioA, ScenarioB, Override(ScenarioB, "factory", FactoryDocsK),
     Override(ScenarioE, "kernel_name", KernelGo),
     Override(ScenarioA, "source", SourceNope)}
      \cup {Without(ScenarioA, key) : key \in DOMAIN ScenarioA}

\* the arguments a caller passes to a registered factory
UserArgs ==
    {<< >>, <<StringObject(DeviceId)>>,
     <<StringObject(DeviceId), StringObject(KernelGo)>>}

\* what convertString returns for a key, when the key is there
Converted(cfg, key) == IF key \in DOMAIN cfg THEN convertString(cfg[key]) ELSE {0}

----------------------------------------------------------------------------
(* The state machine *)

NoInvocation == [path |-> << >>, args |-> << >>]

\* The registry once the module is loaded: the static block has registered
\* the conf loader, and the module's OpenCL kernel block is registered.
Init ==
    /\ registry = (ConfLoaderPath :> HostCallable("OpenClConfLoader"))
                    @@ (OpenClKernelPath :> HostCallable("OpenClKernel"))
    /\ op = "init"
    /\ config = << >>
    /\ ret = NotCalled
    /\ blockDescription = << >>
    /\ loaded = << >>
    /\ invoked = NoInvocation
    /\ trace = << >>

\* One call of the conf loader with a config drawn from cfgs.
LoadFrom(cfgs) ==
    \E cfg \in cfgs, hostThrows \in HostCalls :
      \E localSize \in Converted(cfg, "local_size"),
         globalFactor \in Converted(cfg, "global_factor"),
         productionFactor \in Converted(cfg, "production_factor") :
        \E r \in {OpenClConfLoader(cfg, registry, ExistingFiles, hostThrows,
                                   localSize, globalFactor, productionFactor)} :
            /\ registry' = r.registry
            /\ op' = "load"
            /\ config' = cfg
            /\ ret' = r.ret
            /\ blockDescription' = r.blockDescription
            /\ loaded' = IF r.bound
                         THEN loaded @@ (Concat(BlocksPath, cfg["factory"]) :>
                                           [config |-> cfg,
                                            factoryArgs |-> r.factoryArgs])
                         ELSE loaded
            /\ invoked' = NoInvocation
            /\ trace' = << >>

\* The framework calls the conf loader for one more descriptor it found.
Load ==
    /\ Cardinality(DOMAIN loaded) < MaxLoads
    /\ LoadFrom(Descriptors)

\* The first call of the conf loader in a process, with any of the configs.
LoadFirst ==
    /\ op = "init"
    /\ LoadFrom(Configs)

\* The framework constructs a block through a factory the loader registered.
Invoke ==
    \E path \in DOMAIN registry, args \in UserArgs :
        /\ registry[path].type = "Callable"
        /\ registry[path].target = "opaqueOpenClBlockFactory"
        /\ OpenClKernelPath \in DOMAIN registry
        /\ trace' = opaqueOpenClBlockFactory(registry[path].factory,
                                             registry[path].factoryArgs, args)
        /\ invoked' = [path |-> path, args |-> args]
        /\ op' = "invoke"
        /\ config' = << >>
        /\ ret' = NotCalled
        /\ blockDescription' = << >>
        /\ UNCHANGED <<registry, loaded>>

Next == Load \/ Invoke

Spec == Init /\ [][Next]_vars

\* a process that loads one descriptor and then constructs blocks
NextFirst == LoadFirst \/ Invoke

SpecFirst == Init /\ [][NextFirst]_vars

----------------------------------------------------------------------------
(* Reading a text back, for the properties *)

\* pattern occurs in text at position i
OccursAt(text, i, pattern) ==
    /\ i + Len(pattern) - 1 <= Len(text)
    /\ \A j \in 1..Len(pattern) : text[i + j - 1] = pattern[j]

Contains(text, pattern) == \E i \in 1..Len(text) : OccursAt(text, i, pattern)

\* the members of a set of numbers, in increasing order
RECURSIVE Ascending(_)
Ascending(S) ==
    IF S = {} THEN << >> ELSE <<Min(S)>> \o Ascending(S \ {Min(S)})

\* what follows prefix on each line of text that starts with prefix, top down
LinesWith(text, prefix) ==
    LET starts == {i \in 1..Len(text) :
                      /\ i = 1 \/ text[i - 1] = "\n"
                      /\ OccursAt(text, i, prefix)}
        EndOfLine(i) == Min({j \in i..(Len(text) + 1) :
                                j = Len(text) + 1 \/ text[j] = "\n"})
        order == Ascending(starts)
    IN  [n \in 1..Len(order) |->
            SubSeq(text, order[n] + Len(prefix), EndOfLine(order[n]) - 1)]

\* the whitespace-separated words of str, left to right: the maximal runs of
\* characters other than space and tab
Words(str) ==
    LET Blank(i) == str[i] = " " \/ str[i] = "\t"
        starts == {i \in 1..Len(str) : ~Blank(i) /\ (i = 1 \/ Blank(i - 1))}
        EndOfWord(i) == Min({j \in i..Len(str) : j = Len(str) \/ Blank(j + 1)})
        order == Ascending(starts)
    IN  [n \in 1..Len(order) |-> SubSeq(str, order[n], EndOfWord(order[n]))]

ParamLocalSize ==
    <<"|", "p", "a", "r", "a", "m", " ", "l", "o", "c", "a", "l", "S", "i",
      "z", "e">>
ParamGlobalFactor ==
    <<"|", "p", "a", "r", "a", "m", " ", "g", "l", "o", "b", "a", "l", "F",
      "a", "c", "t", "o", "r">>
ParamProductionFactor ==
    <<"|", "p", "a", "r", "a", "m", " ", "p", "r", "o", "d", "u", "c", "t",
      "i", "o", "n", "F", "a", "c", "t", "o", "r">>
SetterLocalSize ==
    <<"|", "s", "e", "t", "t", "e", "r", " ", "s", "e", "t", "L", "o", "c",
      "a", "l", "S", "i", "z", "e", "(">>
SetterGlobalFactor ==
    <<"|", "s", "e", "t", "t", "e", "r", " ", "s", "e", "t", "G", "l", "o",
      "b", "a", "l", "F", "a", "c", "t", "o", "r", "(">>
SetterProductionFactor ==
    <<"|", "s", "e", "t", "t", "e", "r", " ", "s", "e", "t", "P", "r", "o",
      "d", "u", "c", "t", "i", "o", "n", "F", "a", "c", "t", "o", "r", "(">>
CategoryLine ==
    <<" ", "*", " ", "|", "c", "a", "t", "e", "g", "o", "r", "y", " ">>
KeywordLine ==
    <<" ", "*", " ", "|", "k", "e", "y", "w", "o", "r", "d", " ">>

\* the three tunables: config key, documentation marks, setter of the block
Tunables ==
    {[key |-> "local_size", param |-> ParamLocalSize,
      setter |-> SetterLocalSize, call |-> "setLocalSize"],
     [key |-> "global_factor", param |-> ParamGlobalFactor,
      setter |-> SetterGlobalFactor, call |-> "setGlobalFactor"],
     [key |-> "production_factor", param |-> ParamProductionFactor,
      setter |-> SetterProductionFactor, call |-> "setProductionFactor"]}

\* the last call of the loader got as far as synthesizing the documentation
Synthesized == op = "load" /\ blockDescription # << >>

\* the descriptor behind the factory that was invoked last
InvokedConfig == loaded[invoked.path].config
InvokedArgs == loaded[invoked.path].factoryArgs

----------------------------------------------------------------------------
(* C1 *)

\* C1: for each tunable, the synthesized documentation has the tunable's
\* |param block and its |setter line exactly when the tunable's key is not
\* in the config, and an invocation of the registered factory calls the
\* tunable's setter exactly when the key is in the config.
C1_DocumentedXorPreBound ==
    /\ Synthesized =>
         \A t \in Tunables :
            /\ Contains(blockDescription, t.param) <=> t.key \notin DOMAIN config
            /\ Contains(blockDescription, t.setter) <=> t.key \notin DOMAIN config
    /\ op = "invoke" =>
         \A t \in Tunables :
            (\E i \in 1..Len(trace) : trace[i].call = t.call)
                <=> t.key \in DOMAIN InvokedConfig

\* a factory loaded with local_size but without global_factor was invoked
C1_Witness ==
    /\ op = "invoke"
    /\ "local_size" \in DOMAIN InvokedConfig
    /\ "global_factor" \notin DOMAIN InvokedConfig
    /\ \E i \in 1..Len(trace) : trace[i].call = "setLocalSize"

----------------------------------------------------------------------------
(* C2 *)

\* C2: a call of the loader that returns, returns the two paths
\* "/blocks"+factory and "/blocks/docs"+factory in this order, and the
\* registry then holds the factory callable under the first and the JSON
\* documentation object under the second.
C2_ReturnsBothPaths ==
    (op = "load" /\ ret.status = "return") =>
        /\ Len(ret.paths) = 2
        /\ ret.paths[1] = BlocksPath \o config["factory"]
        /\ ret.paths[2] = BlocksDocsPath \o config["factory"]
        /\ ret.paths[1] \in DOMAIN registry
        /\ registry[ret.paths[1]].type = "Callable"
        /\ registry[ret.paths[1]].target = "opaqueOpenClBlockFactory"
        /\ registry[ret.paths[1]].factory = config["factory"]
        /\ ret.paths[2] \in DOMAIN registry
        /\ registry[ret.paths[2]].type = "JSONObject"
        /\ registry[ret.paths[2]].doc = blockDescription

\* Scenario A was loaded and the call returned
C2_Witness ==
    /\ op = "load"
    /\ ret.status = "return"
    /\ config = ScenarioA

----------------------------------------------------------------------------
(* C3 *)

\* C3: an invocation of a registered factory constructs the block, then
\* calls setName(factory), setSource(kernelName, source), and the setters of
\* the tunables the config gave, each once with the stored value, in the
\* order setLocalSize, setGlobalFactor, setProductionFactor, and returns the
\* block after all of them.
C3_CallOrder ==
    op = "invoke" =>
        LET Setter(key, name, opt) ==
                IF key \in DOMAIN InvokedConfig
                THEN <<Call(name, <<SizeTObject(opt.value)>>)>>
                ELSE << >>
            n == Len(trace)
        IN  /\ n >= 4
            /\ trace[1].call = "opaqueCall"
            /\ trace[2] = Call("setName", <<StringObject(InvokedConfig["factory"])>>)
            /\ trace[3] = Call("setSource",
                               <<StringObject(InvokedConfig["kernel_name"]),
                                 StringObject(InvokedArgs.source)>>)
            /\ SubSeq(trace, 4, n - 1) =
                   Setter("local_size", "setLocalSize", InvokedArgs.optLocalSize)
                   \o Setter("global_factor", "setGlobalFactor",
                             InvokedArgs.optGlobalFactor)
                   \o Setter("production_factor", "setProductionFactor",
                             InvokedArgs.optProductionFactor)
            /\ trace[n] = Call("return", << >>)

\* Scenario B's factory was invoked: setLocalSize(4), setGlobalFactor(2),
\* setProductionFactor(1), in this order
C3_Witness ==
    /\ op = "invoke"
    /\ InvokedConfig = ScenarioB
    /\ SubSeq(trace, 4, 6) =
           <<Call("setLocalSize", <<SizeTObject(4)>>),
             Call("setGlobalFactor", <<SizeTObject(2)>>),
             Call("setProductionFactor", <<SizeTObject(1)>>)>>

----------------------------------------------------------------------------
(* C4 *)

\* C4: the generic block factory is called with the caller's arguments in
\* their order, followed by the input types and then the output types, each
\* the words of its config value in the order they appear there.
C4_ArgumentsForwarded ==
    op = "invoke" =>
        /\ trace[1].call = "opaqueCall"
        /\ trace[1].args =
               invoked.args
               \o <<VectorObject(Words(InvokedConfig["input_types"])),
                    VectorObject(Words(InvokedConfig["output_types"]))>>

\* a factory whose input_types had two words between blanks was invoked
\* with no argument: the generic factory got the two type vectors only
C4_Witness ==
    /\ op = "invoke"
    /\ invoked.args = << >>
    /\ InvokedConfig["input_types"] = TypesSpaced
    /\ trace[1].args =
           <<VectorObject(<<TypesF32, TypesI8>>), VectorObject(<<TypesI8>>)>>

----------------------------------------------------------------------------
(* C5 *)

RequiredKeys ==
    {"confFilePath", "source", "kernel_name", "input_types", "output_types",
     "factory"}

\* a required key is not in cfg
MissingRequired(cfg) == \E key \in RequiredKeys : key \notin DOMAIN cfg

\* cfg names a source that, resolved against the directory of the
\* descriptor, is not a file that exists
SourceNotFound(cfg) ==
    /\ "confFilePath" \in DOMAIN cfg
    /\ "source" \in DOMAIN cfg
    /\ PathToString(makeParent(cfg["confFilePath"]), cfg["source"])
           \notin ExistingFiles

\* C5: a call of the loader with a required key missing, or with a source
\* that does not exist, throws (an Exception for the missing key, a
\* FileNotFoundException for the source) and leaves the registry as it was
\* before the call.
C5_ValidationBeforeWrites ==
    [][(op' = "load" /\ (MissingRequired(config') \/ SourceNotFound(config'))) =>
          /\ ret'.status = "throw"
          /\ registry' = registry
          /\ loaded' = loaded
          /\ ~SourceNotFound(config') => ret'.type = "Exception"
          /\ ~MissingRequired(config') => ret'.type = "FileNotFoundException"
          /\ (MissingRequired(config') /\ SourceNotFound(config')) =>
                 ret'.type \in {"Exception", "FileNotFoundException"}]_vars

\* with a factory already registered, the loader was called without
\* kernel_name and threw "No kernel name"
C5_Witness ==
    /\ op = "load"
    /\ DOMAIN loaded # {}
    /\ config = Without(ScenarioA, "kernel_name")
    /\ ret = Throw("Exception", NoKernelName)

----------------------------------------------------------------------------
(* C6 *)

\* str is a non-negative decimal integer, leading whitespace allowed
WellFormedSize(str) ==
    \E i \in 1..Len(str) :
        /\ \A j \in 1..(i - 1) : str[j] \in Whitespace
        /\ \A j \in i..Len(str) : IsDigit(str[j])

\* cfg gives a tunable a value that is not a non-negative decimal integer
MalformedTunable(cfg) ==
    \E t \in Tunables : t.key \in DOMAIN cfg /\ ~WellFormedSize(cfg[t.key])

\* C6: a call of the loader with local_size, global_factor or
\* production_factor present and not a non-negative decimal integer throws
\* and writes nothing to the registry.
C6_MalformedTunableRejected ==
    [][(op' = "load" /\ MalformedTunable(config')) =>
          /\ ret'.status = "throw"
          /\ registry' = registry]_vars

----------------------------------------------------------------------------
(* C7 *)

\* C7: the documentation has one |category line per word of the categories
\* value, in order, and one |keyword line per word of the keywords value, in
\* order; without categories it has the one |category line of the source
\* file's base name.
C7_CategoriesAndKeywordsFromOwnValue ==
    Synthesized =>
        /\ "categories" \in DOMAIN config =>
               LinesWith(blockDescription, CategoryLine) = Words(config["categories"])
        /\ "keywords" \in DOMAIN config =>
               LinesWith(blockDescription, KeywordLine) = Words(config["keywords"])
        /\ "categories" \notin DOMAIN config =>
               LinesWith(blockDescription, CategoryLine) =
                   <<getBaseName(config["source"])>>

----------------------------------------------------------------------------
(* C8 *)

\* C8: a call of the loader whose factory value is empty or does not begin
\* with "/" throws and installs nothing, so that every path the loader
\* installs is "/blocks" or "/blocks/docs" followed by a non-empty factory
\* path that begins with "/".
C8_FactoryPathChecked ==
    [][op' = "load" =>
          /\ ("factory" \in DOMAIN config'
                /\ (config'["factory"] = << >> \/ Head(config'["factory"]) # "/")) =>
                 (ret'.status = "throw" /\ registry' = registry)
          /\ \A path \in DOMAIN registry' \ DOMAIN registry :
                \E prefix \in {BlocksPath, BlocksDocsPath} :
                    /\ Len(path) > Len(prefix) + 1
                    /\ SubSeq(path, 1, Len(prefix) + 1) = prefix \o <<"/">>]_vars

----------------------------------------------------------------------------
(* C9 *)

\* C9: the loader installs the factory callable before the documentation
\* object and takes nothing back: when a call throws after the factory
\* callable went in, the registry is the one before the call plus the
\* factory under "/blocks"+factory, no documentation object is under
\* "/blocks/docs"+factory, and no path list is returned.  The documentation
\* of a factory is never in the registry without the factory's callable.
C9_FactoryFirstNoCleanup ==
    [][op' = "load" =>
          /\ (ret'.status = "throw" /\ loaded' # loaded) =>
                LET factory == config'["factory"]
                    factoryPath == BlocksPath \o factory
                    docsPath == BlocksDocsPath \o factory
                IN  /\ factoryPath \notin DOMAIN registry
                    /\ factoryPath \in DOMAIN registry'
                    /\ registry' =
                          registry @@ (factoryPath :> registry'[factoryPath])
                    /\ registry'[factoryPath].type = "Callable"
                    /\ registry'[factoryPath].target = "opaqueOpenClBlockFactory"
                    /\ registry'[factoryPath].factory = factory
                    /\ ~(/\ docsPath \in DOMAIN registry'
                         /\ registry'[docsPath].type = "JSONObject")
                    /\ ret'.paths = << >>
          /\ \A path \in DOMAIN registry' :
                registry'[path].type = "JSONObject" =>
                    /\ (BlocksPath \o registry'[path].factory) \in DOMAIN registry'
                    /\ registry'[BlocksPath \o registry'[path].factory].type
                           = "Callable"]_vars

\* a call threw after it had installed the factory: the factory is in the
\* registry, its documentation path is not
C9_Witness ==
    /\ op = "load"
    /\ ret.status = "throw"
    /\ "factory" \in DOMAIN config
    /\ (BlocksPath \o config["factory"]) \in DOMAIN loaded
    /\ loaded[BlocksPath \o config["factory"]].config = config
    /\ (BlocksPath \o config["factory"]) \in DOMAIN registry
    /\ (BlocksDocsPath \o config["factory"]) \notin DOMAIN registry

----------------------------------------------------------------------------
(* C10 *)

\* C10: every registered factory keeps the FactoryArgs that were bound when
\* its descriptor was loaded, whatever is loaded or invoked afterwards; an
\* invocation passes these values to the block; the loader constructs no
\* block.
C10_FrozenSnapshot ==
    /\ \A path \in DOMAIN loaded :
          /\ path \in DOMAIN registry
          /\ registry[path].type = "Callable"
          /\ registry[path].factoryArgs = loaded[path].factoryArgs
    /\ op = "load" => trace = << >>
    /\ op = "invoke" =>
          LET n == Len(invoked.args)
              Value(name) ==
                  {trace[i].args[1].num : i \in {j \in 1..Len(trace) : trace[j].call = name}}
              Stored(opt) == IF opt.isSpecified THEN {opt.value} ELSE {}
          IN  /\ trace[1].args[n + 1].strs = InvokedArgs.inputTypes
              /\ trace[1].args[n + 2].strs = InvokedArgs.outputTypes
              /\ trace[3].args[1].strs = <<InvokedArgs.kernelName>>
              /\ trace[3].args[2].strs = <<InvokedArgs.source>>
              /\ Value("setLocalSize") = Stored(InvokedArgs.optLocalSize)
              /\ Value("setGlobalFactor") = Stored(InvokedArgs.optGlobalFactor)
              /\ Value("setProductionFactor") = Stored(InvokedArgs.optProductionFactor)

\* two factories with different tunables are registered and the one without
\* tunables was invoked
C10_Witness ==
    /\ op = "invoke"
    /\ Cardinality(DOMAIN loaded) = 2
    /\ ~InvokedArgs.optLocalSize.isSpecified
    /\ \E path \in DOMAIN loaded : loaded[path].factoryArgs.optLocalSize.isSpecified

====
